---- MODULE Spec2Model ----
(***************************************************************************)
(* The LangGraph summarisation pipeline of backend/app/langgraph:          *)
(* workflow.py (graph construction, entry points, checkpoint queries),     *)
(* nodes.py (the five nodes) and the two store services they call          *)
(* (core/pinecone_service.py, langgraph/neo4j_service.py).                 *)
(*                                                                         *)
(* Python None is the string "None" for string fields and NoneNum for      *)
(* numeric fields; a Python list is a sequence.                            *)
(***************************************************************************)
EXTENDS Naturals, Integers, Sequences, FiniteSets, TLC

\* ------------------------------------------------------------------ bounds

\* Number of entry-point invocations explored in one behaviour.
MaxRuns == 2

\* ------------------------------------------------------- program constants

\* nodes.py:113  truncate_text(state.transcript or "", 4000)
TokenBudget == 4000

\* types.py:23  confidence: Optional[float] = None
NoneNum == -1

\* ------------------------------------------------------------ input domains

None == "None"

\* Tasks that may be in flight at once on the event loop.
Slots == {"r1", "r2"}

Videos == {"v1", "v2"}

Users == {"u1"}

\* A transcript is its sequence of tokens.
Transcripts == {<<"w1", "w2">>}

Tones == {"professional"}

\* thread_id arguments of run_workflow_with_checkpoint: None (the default
\* thread of the video) or an explicit id, here one that is also the default
\* thread of a video.
ThreadArgs == {None, "workflow_v2"}

EntryPoints == {"run_workflow", "run_workflow_with_checkpoint"}

\* workflow.py:97, 121  f"workflow_{video_id}"
DefaultThread(video_id) == "workflow_" \o video_id

Threads == {DefaultThread(v) : v \in Videos} \cup (ThreadArgs \ {None})

\* Python truthiness of an Optional[str]: None and "" are falsy.
Truthy(x) == x \notin {None, ""}

\* x or d
OrElse(x, d) == IF Truthy(x) THEN x ELSE d

\* ------------------------------------------------------------- WorkflowState

\* types.py:5-37  WorkflowState(youtube_url=..., video_id=..., transcript=...,
\* user_id=..., tone=...) with every other field at its declared default.
WorkflowState(youtube_url, video_id, transcript, user_id, tone) ==
    [ youtube_url |-> youtube_url, video_id |-> video_id,
      transcript |-> transcript, user_id |-> user_id,
      summary |-> None, title |-> None, tone |-> tone,
      key_points |-> << >>, tags |-> << >>,
      topic |-> None, category |-> None, confidence |-> NoneNum,
      subcategories |-> << >>,
      pinecone_id |-> None, neo4j_id |-> None,
      created_at |-> None, processing_time |-> None, token_count |-> NoneNum,
      error |-> None, error_step |-> None ]

\* The state of a slot that runs nothing.
NoState == WorkflowState(None, None, << >>, None, None)

\* ------------------------------------------------------------ pure helpers

\* A text is the sequence of its characters.  The tokenizer is byte-level:
\* a character outside its vocabulary is encoded as several tokens, each a
\* part of the character's bytes ("WIDE" stands for such a character, of two
\* tokens); every other character of the model is one token.
WideChar == "WIDE"

\* U+FFFD, which decode puts in place of bytes that are no complete
\* character (tiktoken decodes with errors="replace").
ReplacementChar == "U+FFFD"

\* encoding.encode of one character.
EncodeChar(c) == IF c = WideChar THEN <<"WIDE.head", "WIDE.tail">> ELSE <<c>>

RECURSIVE Encode(_)
\* encoding.encode(text)
Encode(text) ==
    IF text = << >> THEN << >> ELSE EncodeChar(Head(text)) \o Encode(Tail(text))

RECURSIVE Decode(_)
\* encoding.decode(tokens): the bytes of the tokens joined and read as
\* UTF-8; a part of a character without its other part gives U+FFFD.
Decode(tokens) ==
    IF tokens = << >> THEN << >>
    ELSE IF Head(tokens) = "WIDE.head" /\ Len(tokens) > 1 /\ tokens[2] = "WIDE.tail"
    THEN <<WideChar>> \o Decode(Tail(Tail(tokens)))
    ELSE IF Head(tokens) \in {"WIDE.head", "WIDE.tail"}
    THEN <<ReplacementChar>> \o Decode(Tail(tokens))
    ELSE <<Head(tokens)>> \o Decode(Tail(tokens))

\* nodes.py:90-93  count_tokens
count_tokens(text) == Len(Encode(text))

\* nodes.py:95-104  truncate_text: the text itself within the budget, else the
\* decoding of the first max_tokens tokens.
truncate_text(text, max_tokens) ==
    IF count_tokens(text) <= max_tokens THEN text
    ELSE Decode(SubSeq(Encode(text), 1, max_tokens))

\* The elements of a sequence.
Range(s) == {s[i] : i \in 1..Len(s)}

\* list(set(xs)): the distinct elements of xs in an order the hash seed
\* decides, so every order is possible.
ListOfSet(S) ==
    {q \in [1..Cardinality(S) -> S] : \A i, j \in 1..Cardinality(S) : q[i] = q[j] => i = j}

\* pinecone_service.py:28-30  _generate_id: md5 of f"{video_id}_{user_id}";
\* the digest is represented by the string it is computed from.
GenerateId(video_id, user_id) == video_id \o "_" \o user_id

\* pinecone_service.py:32-44  _create_metadata (created_at and the two
\* lengths are not compared by any property and are left out).
CreateMetadata(s, user_id, video_id) ==
    [ user_id |-> user_id, video_id |-> video_id,
      video_title |-> s.title, tone |-> s.tone,
      tags |-> s.tags, key_points |-> s.key_points ]

VecIds == {GenerateId(v, u) : v \in Videos \cup {"unknown"}, u \in Users \cup {"anonymous"}}

NoVec == [ user_id |-> None, video_id |-> None, video_title |-> None,
           tone |-> None, tags |-> << >>, key_points |-> << >> ]

\* ---------------------------------------------------------- output parsers

\* Longest LLM response explored, in tokens.
MaxTextLen == 5

\* A response text is a sequence of tokens: FENCE (the three backquotes that
\* open or close a fenced block) and the word json (together the marker the
\* parsers look for), the braces, a JSON number, a character that belongs to
\* no JSON value, and a blank.
Tokens == {"FENCE", "json", "{", "}", "5", "x", " "}

\* The tokens of more than one character.
LongTokens == {"FENCE", "json"}

Texts == UNION {[1..n -> Tokens] : n \in 0..MaxTextLen}

\* The text as one string.
RECURSIVE Render(_)
Render(text) == IF text = << >> THEN "" ELSE Head(text) \o Render(Tail(text))

\* pat occurs in text at position i.
OccursAt(text, pat, i) ==
    /\ i >= 1
    /\ i + Len(pat) - 1 <= Len(text)
    /\ \A k \in 1..Len(pat) : text[i + k - 1] = pat[k]

\* pat in text
Contains(text, pat) == \E i \in 1..Len(text) : OccursAt(text, pat, i)

\* text.find(pat, start): the first position at or after start where pat
\* occurs, 0 (Python: -1) when there is none.
Find(text, pat, start) ==
    IF \E i \in start..Len(text) : OccursAt(text, pat, i)
    THEN CHOOSE i \in start..Len(text) :
             /\ OccursAt(text, pat, i)
             /\ \A j \in start..(i - 1) : ~OccursAt(text, pat, j)
    ELSE 0

\* text.rfind(pat): the last position where pat occurs, 0 when there is none.
RFind(text, pat) ==
    IF Contains(text, pat)
    THEN CHOOSE i \in 1..Len(text) :
             /\ OccursAt(text, pat, i)
             /\ \A j \in (i + 1)..Len(text) : ~OccursAt(text, pat, j)
    ELSE 0

\* text[:-1]: the text without its last character; what is left of a longer
\* token is no token of JSON.
DropLastChar(text) ==
    IF text = << >> THEN << >>
    ELSE IF text[Len(text)] \in LongTokens
    THEN SubSeq(text, 1, Len(text) - 1) \o <<"x">>
    ELSE SubSeq(text, 1, Len(text) - 1)

\* str.strip()
RECURSIVE Strip(_)
Strip(text) ==
    IF text = << >> THEN text
    ELSE IF Head(text) = " " THEN Strip(Tail(text))
    ELSE IF text[Len(text)] = " " THEN Strip(SubSeq(text, 1, Len(text) - 1))
    ELSE text

\* The tokens of text that are not blanks.
NonBlank(text) == SelectSeq(text, LAMBDA c : c # " ")

\* json.loads: blanks around and between the tokens of a value are skipped;
\* the values over these tokens are the empty object and the number.
JsonValues == {<<"{", "}">>, <<"5">>}

JsonLoads(text) ==
    IF NonBlank(text) \in JsonValues
    THEN [ok |-> TRUE, value |-> NonBlank(text)]
    ELSE [ok |-> FALSE, value |-> << >>]

\* The object a parser returns: the value json.loads produced, or the dict
\* literal of the parser's fallback with the text it keeps.
Parsed(value) == [kind |-> "json", value |-> value, raw |-> ""]

\* nodes.py:40-46, 49-55  the fallback of SummaryOutputParser keeps the text
\* as "summary".
SummaryFallback(text) == [kind |-> "fallback", value |-> << >>, raw |-> Render(text)]

\* nodes.py:73-79, 82-88  the fallback of ClassificationOutputParser is a
\* constant.
ClassificationFallback(text) == [kind |-> "fallback", value |-> << >>, raw |-> ""]

\* nodes.py:29-38 (62-71)  the string handed to json.loads, or none in the
\* else branch.
JsonStr(text) ==
    IF Contains(text, <<"FENCE", "json">>)
    THEN LET json_start == Find(text, <<"FENCE", "json">>, 1) + 2
             json_end == Find(text, <<"FENCE">>, json_start)
         IN  [some |-> TRUE,
              str |-> Strip(IF json_end = 0
                            THEN SubSeq(DropLastChar(text), json_start, Len(text) - 1)
                            ELSE SubSeq(text, json_start, json_end - 1))]
    ELSE IF Contains(text, <<"{">>) /\ Contains(text, <<"}">>)
    THEN [some |-> TRUE,
          str |-> SubSeq(text, Find(text, <<"{">>, 1), RFind(text, <<"}">>))]
    ELSE [some |-> FALSE, str |-> << >>]

\* nodes.py:24-55  SummaryOutputParser.parse
SummaryParse(text) ==
    IF JsonStr(text).some /\ JsonLoads(JsonStr(text).str).ok
    THEN Parsed(JsonLoads(JsonStr(text).str).value)
    ELSE SummaryFallback(text)

\* nodes.py:57-88  ClassificationOutputParser.parse
ClassificationParse(text) ==
    IF JsonStr(text).some /\ JsonLoads(JsonStr(text).str).ok
    THEN Parsed(JsonLoads(JsonStr(text).str).value)
    ELSE ClassificationFallback(text)

\* --------------------------------------------------- external call outcomes

\* str(e) of the exception a failing call raises.  get_embedding
\* (smart_summary.py:59) raises HTTPException(status_code=..., detail=...)
\* with keyword arguments only: its args tuple is empty and, on Starlette
\* versions without HTTPException.__str__, str(e) is "" (with it, the text is
\* non-empty and the run behaves as for a failed upsert).
ErrMsgs(node) ==
    IF node = "pinecone_store" THEN {"", "upsert failed"} ELSE {node \o " failed"}

\* What SummaryOutputParser.parse returns for the LLM's response.
SummaryResults ==
    { [ summary |-> "S", title |-> "T", tone |-> "casual",
        key_points |-> <<"k1">>, tags |-> <<"t1">> ] }

\* What ClassificationOutputParser.parse returns for the LLM's response.
ClassificationResults ==
    { [ topic |-> "ML", category |-> "Tech", confidence |-> 85,
        subcategories |-> <<"sub1">>, tags |-> <<"t1">> ] }

\* The results a node's external call can deliver.
Results(node) ==
    CASE node = "summarize" -> SummaryResults
      [] node = "classify" -> ClassificationResults
      [] OTHER -> {None}

Ok(result) == [ok |-> TRUE, result |-> result, msg |-> ""]

\* A call that raised delivers no result (the field holds a placeholder of
\* the node's result type and is never read).
Raise(node, msg) ==
    [ok |-> FALSE, result |-> CHOOSE x \in Results(node) : TRUE, msg |-> msg]

Outcomes(node) ==
    {Ok(x) : x \in Results(node)} \cup {Raise(node, m) : m \in ErrMsgs(node)}

\* ------------------------------------------------------------------- nodes

\* nodes.py:167-170 (and 233-236, 277-280, 310-313): the except branch of a
\* node records the failure and keeps whatever was written before it.
SetError(s, msg, step) == [s EXCEPT !.error = msg, !.error_step = step]

\* nodes.py:106-172  summarize_node
summarize_node(s, o) ==
    LET truncated_transcript == truncate_text(s.transcript, TokenBudget)
        token_count == count_tokens(truncated_transcript)
    IN  IF o.ok
        THEN [s EXCEPT !.summary = o.result.summary,
                       !.title = o.result.title,
                       !.tone = o.result.tone,
                       !.key_points = o.result.key_points,
                       !.tags = o.result.tags,
                       !.token_count = token_count,
                       !.processing_time = "elapsed"]
        ELSE SetError(s, o.msg, "summarize")

\* JSON null where a list of tags is expected: WorkflowState does not validate
\* on assignment (types.py:5, 16), so result.get("tags", []) of a response
\* with "tags": null puts None into state.tags.
NullTags == <<None>>

\* nodes.py:226  state.tags.extend(result.get("tags", [])) raises when either
\* side is None.
ExtendRaises(s, o) == s.tags = NullTags \/ o.result.tags = NullTags

\* Mutant of ClassifyTags: extend without the removal of duplicates.
ClassifyTagsKeepingDuplicates(s, o) ==
    IF o.ok /\ ~ExtendRaises(s, o) THEN {s.tags \o o.result.tags} ELSE {s.tags}

\* nodes.py:226-229  the orders of state.tags after extend and list(set()).
ClassifyTags(s, o) ==
    IF o.ok /\ ~ExtendRaises(s, o)
    THEN ListOfSet(Range(s.tags \o o.result.tags))
    ELSE {s.tags}

\* nodes.py:174-238  classify_node; tags is one of the orders list(set(...))
\* may produce.  The four assignments of lines 222-225 precede the extend of
\* line 226, and the except branch keeps them.
classify_node(s, o, tags) ==
    IF ~o.ok THEN SetError(s, o.msg, "classify")
    ELSE IF ExtendRaises(s, o)
    THEN SetError([s EXCEPT !.topic = o.result.topic,
                            !.category = o.result.category,
                            !.confidence = o.result.confidence,
                            !.subcategories = o.result.subcategories],
                  IF s.tags = NullTags
                  THEN "'NoneType' object has no attribute 'extend'"
                  ELSE "'NoneType' object is not iterable",
                  "classify")
    ELSE [s EXCEPT !.topic = o.result.topic,
                   !.category = o.result.category,
                   !.confidence = o.result.confidence,
                   !.subcategories = o.result.subcategories,
                   !.tags = tags]

\* nodes.py:249-272, pinecone_service.py:43  What the calls of
\* pinecone_store_node deliver: get_embedding may raise first; then
\* _create_metadata evaluates len(summary_data.get("summary", "")), and the key
\* is present with value None when no summary was written, a TypeError raised
\* before index.upsert is reached.
pinecone_calls(s, o) ==
    IF s.summary = None /\ (o.ok \/ o.msg # "")
    THEN Raise("pinecone_store", "object of type 'NoneType' has no len()")
    ELSE o

\* nodes.py:269-270, pinecone_service.py:55  the id store_summary generates
\* from the arguments pinecone_store_node passes.
VectorKey(s) == GenerateId(OrElse(s.video_id, "unknown"), OrElse(s.user_id, "anonymous"))

\* Mutant of pinecone_store_node: the id written to the run state is the
\* video id, not the id of the record.
pinecone_store_node_video_key(s, o) ==
    IF o.ok THEN [s EXCEPT !.pinecone_id = OrElse(s.video_id, "unknown")]
    ELSE SetError(s, o.msg, "pinecone_store")

\* nodes.py:240-282  pinecone_store_node (run state)
pinecone_store_node(s, o) ==
    IF o.ok
    THEN [s EXCEPT !.pinecone_id =
              GenerateId(OrElse(s.video_id, "unknown"), OrElse(s.user_id, "anonymous"))]
    ELSE SetError(s, o.msg, "pinecone_store")

\* pinecone_service.py:46-66  store_summary: upsert under the generated id.
PineconeUpsert(store, s, o) ==
    LET user_id == OrElse(s.user_id, "anonymous")
        video_id == OrElse(s.video_id, "unknown")
    IN  IF o.ok
        THEN [store EXCEPT ![GenerateId(video_id, user_id)] =
                  CreateMetadata(s, user_id, video_id)]
        ELSE store

\* nodes.py:284-315  neo4j_store_node (run state)
neo4j_store_node(s, o) ==
    IF o.ok
    THEN [s EXCEPT !.neo4j_id = OrElse(s.video_id, "unknown")]
    ELSE SetError(s, o.msg, "neo4j_store")

\* The text of the key points the LLM can return.
KeyPointTexts == {"k1"}

KpKeys == (Videos \cup {"unknown"}) \X KeyPointTexts

\* The Neo4j graph: the nodes and relationships MERGE keeps unique by their
\* key, and per (video, text) the number of KeyPoint nodes, each with its
\* HAS_KEY_POINT relationship.
EmptyGraph == [nodes |-> {}, rels |-> {}, key_points |-> [k \in KpKeys |-> 0]]

\* Number of positions of xs that hold x.
Occurrences(xs, x) == Cardinality({i \in 1..Len(xs) : xs[i] = x})

\* neo4j_service.py:31-103  store_summary: one auto-commit query; a failure
\* leaves the graph as it was.  The query is a pipeline of rows: each UNWIND
\* multiplies the rows by the length of its list (none are left after an
\* empty list), every clause after it runs once per row, MERGE finds or
\* creates, CREATE always creates.  The arguments are those neo4j_store_node
\* passes (nodes.py:293-305).
Neo4jMerge(g, s, o) ==
    LET video_id == OrElse(s.video_id, "unknown")
        user_id == OrElse(s.user_id, "anonymous")
        topic == OrElse(s.topic, "General")
        category == OrElse(s.category, "Education")
        sub_rows == Len(s.subcategories)
        tag_rows == sub_rows * Len(s.tags)
        v == <<"Video", video_id>>
        t == <<"Topic", topic>>
        c == <<"Category", category>>
        u == <<"User", user_id>>
        subs == {<<"Subcategory", x>> : x \in Range(s.subcategories)}
        tags == IF sub_rows > 0 THEN {<<"Tag", x>> : x \in Range(s.tags)} ELSE {}
    IN  IF ~o.ok THEN g
        ELSE [ nodes |-> g.nodes \cup {v, u, t, c} \cup subs \cup tags,
               rels |-> g.rels
                        \cup {<<u, "CREATED", v>>, <<v, "HAS_TOPIC", t>>,
                              <<v, "IN_CATEGORY", c>>, <<t, "BELONGS_TO", c>>}
                        \cup {<<v, "HAS_SUBCATEGORY", sc>> : sc \in subs}
                        \cup {<<sc, "BELONGS_TO", t>> : sc \in subs}
                        \cup {<<v, "HAS_TAG", tag>> : tag \in tags},
               key_points |->
                   [k \in KpKeys |->
                       g.key_points[k]
                       + (IF k[1] = video_id
                          THEN tag_rows * Occurrences(s.key_points, k[2]) ELSE 0)] ]

\* Mutant of Neo4jStoreVectors: a failed merge rolls the run's vector record
\* back (compensation).
Neo4jStoreVectorsCompensating(store, s, o) ==
    IF o.ok THEN store
    ELSE [store EXCEPT ![GenerateId(OrElse(s.video_id, "unknown"),
                                    OrElse(s.user_id, "anonymous"))] = NoVec]

\* nodes.py:284-315  neo4j_store_node never calls pinecone_service: neither
\* branch touches the vector index (no compensation when the merge fails).
Neo4jStoreVectors(store, s, o) == store

\* nodes.py:317-337  finalize_node
finalize_node(s) == [s EXCEPT !.created_at = "utcnow"]

\* ------------------------------------------------------------------- graph

Nodes == <<"summarize", "classify", "pinecone_store", "neo4j_store", "finalize">>

END == "END"

\* Mutant of StaticEdge: the last node has an edge back to the first.
StaticEdgeWithBackEdge(n) ==
    CASE n = "summarize" -> "classify"
      [] n = "classify" -> "pinecone_store"
      [] n = "pinecone_store" -> "neo4j_store"
      [] n = "neo4j_store" -> "finalize"
      [] n = "finalize" -> "summarize"

\* workflow.py:33-37  add_edge
StaticEdge(n) ==
    CASE n = "summarize" -> "classify"
      [] n = "classify" -> "pinecone_store"
      [] n = "pinecone_store" -> "neo4j_store"
      [] n = "neo4j_store" -> "finalize"
      [] n = "finalize" -> END

\* workflow.py:40-58  add_conditional_edges: the nodes that have one.
HasConditionalEdge(n) == n \in {"summarize", "classify", "pinecone_store", "neo4j_store"}

\* Mutant of ConditionalEdge: an error sends the run back into the node that
\* failed (a retry).
ConditionalEdgeRetrying(n, s) == IF ~Truthy(s.error) THEN StaticEdge(n) ELSE n

\* workflow.py:42, 47, 52, 57  lambda state: <next> if not state.error else END
ConditionalEdge(n, s) == IF ~Truthy(s.error) THEN StaticEdge(n) ELSE END

\* How the graph library resolves a node that has both an add_edge and an
\* add_conditional_edges: "all_edges" follows every registered edge (the
\* unconditional edge and the branch's choice), "branch_only" lets the
\* conditional edge decide alone.
EdgeModes == {"all_edges", "branch_only"}

\* The nodes scheduled after node n returned state s.
Successors(mode, n, s) ==
    LET static == {StaticEdge(n)}
        branch == IF HasConditionalEdge(n) THEN {ConditionalEdge(n, s)} ELSE {}
    IN  (IF mode = "all_edges" \/ branch = {} THEN static \cup branch ELSE branch) \ {END}

\* The pipeline is linear: at most one successor.
NextNode(mode, n, s) ==
    IF Successors(mode, n, s) = {} THEN END
    ELSE CHOOSE m \in Successors(mode, n, s) : TRUE

\* ------------------------------------------------------- checkpoint store

\* Mutant of Save: one snapshot shared by all thread ids.
SaveShared(store, t, s) == [u \in DOMAIN store |-> s]

\* Mutant of Save: the fields a run left unset keep the value of the
\* snapshot that was there.
SaveMerging(store, t, s) ==
    IF store[t] = NoState THEN [store EXCEPT ![t] = s]
    ELSE [store EXCEPT ![t] =
             [s EXCEPT !.summary = IF s.summary = None THEN store[t].summary ELSE s.summary,
                       !.topic = IF s.topic = None THEN store[t].topic ELSE s.topic,
                       !.pinecone_id = IF s.pinecone_id = None THEN store[t].pinecone_id
                                       ELSE s.pinecone_id,
                       !.neo4j_id = IF s.neo4j_id = None THEN store[t].neo4j_id
                                    ELSE s.neo4j_id]]

\* Mutant of Save: the first snapshot of a thread id is kept, later ones are
\* dropped.
SaveKeepingFirst(store, t, s) == IF store[t] # NoState THEN store ELSE [store EXCEPT ![t] = s]

\* Checkpoint Store contract: Save overwrites the snapshot of the thread id.
Save(store, t, s) == [store EXCEPT ![t] = s]

\* Checkpoint Store contract: Get returns the snapshot or not_found (NoState).
Get(store, t) == store[t]

\* Mutant of Clear: every snapshot is deleted.
ClearAll(store, t) == [u \in DOMAIN store |-> NoState]

\* Checkpoint Store contract: Clear deletes the snapshot of the thread id.
Clear(store, t) == [store EXCEPT ![t] = NoState]

\* Checkpoint Store contract: List enumerates the thread ids that have a
\* snapshot.
ListKeys(store) == {t \in DOMAIN store : store[t] # NoState}

\* The thread ids in the order the checkpointer enumerates them.
ThreadOrder ==
    CHOOSE q \in [1..Cardinality(Threads) -> Threads] :
        \A i, j \in 1..Cardinality(Threads) : q[i] = q[j] => i = j

\* Checkpoint Store contract: List as the list memory.list_keys() returns.
KeyList(store) == SelectSeq(ThreadOrder, LAMBDA t : store[t] # NoState)

\* A key the returned dict does not have.
Absent == "<absent>"

\* Mutant of get_workflow_status: only the snapshot of a run without error
\* counts as found.
get_workflow_status_success_only(store, thread_id, o) ==
    LET latest_state == Get(store, thread_id)
        found == latest_state # NoState /\ ~Truthy(latest_state.error)
    IN  [ kind |-> "status", thread_id |-> thread_id, completed |-> o.ok /\ found,
          error |-> IF ~o.ok THEN o.msg
                    ELSE IF found THEN latest_state.error ELSE "Thread not found",
          error_step |-> IF o.ok /\ found THEN latest_state.error_step ELSE Absent,
          video_id |-> IF o.ok /\ found THEN latest_state.video_id ELSE Absent,
          summary |-> IF o.ok /\ found THEN latest_state.summary ELSE Absent,
          topic |-> IF o.ok /\ found THEN latest_state.topic ELSE Absent,
          category |-> IF o.ok /\ found THEN latest_state.category ELSE Absent,
          pinecone_id |-> IF o.ok /\ found THEN latest_state.pinecone_id ELSE Absent,
          neo4j_id |-> IF o.ok /\ found THEN latest_state.neo4j_id ELSE Absent ]

\* Mutant of get_workflow_status: the two storage ids are reported under
\* each other's key.
get_workflow_status_swapped_ids(store, thread_id, o) ==
    LET latest_state == Get(store, thread_id)
        found == o.ok /\ latest_state # NoState
    IN  [ kind |-> "status", thread_id |-> thread_id, completed |-> found,
          error |-> IF ~o.ok THEN o.msg
                    ELSE IF found THEN latest_state.error ELSE "Thread not found",
          error_step |-> IF found THEN latest_state.error_step ELSE Absent,
          video_id |-> IF found THEN latest_state.video_id ELSE Absent,
          summary |-> IF found THEN latest_state.summary ELSE Absent,
          topic |-> IF found THEN latest_state.topic ELSE Absent,
          category |-> IF found THEN latest_state.category ELSE Absent,
          pinecone_id |-> IF found THEN latest_state.neo4j_id ELSE Absent,
          neo4j_id |-> IF found THEN latest_state.pinecone_id ELSE Absent ]

\* workflow.py:149-182  get_workflow_status; o is the outcome of memory.get.
get_workflow_status(store, thread_id, o) ==
    LET latest_state == Get(store, thread_id)
    IN  IF ~o.ok
        THEN [ kind |-> "status", thread_id |-> thread_id, completed |-> FALSE,
               error |-> o.msg, error_step |-> Absent, video_id |-> Absent,
               summary |-> Absent, topic |-> Absent, category |-> Absent,
               pinecone_id |-> Absent, neo4j_id |-> Absent ]
        ELSE IF latest_state # NoState
        THEN [ kind |-> "status", thread_id |-> thread_id, completed |-> TRUE,
               error |-> latest_state.error,
               error_step |-> latest_state.error_step,
               video_id |-> latest_state.video_id,
               summary |-> latest_state.summary,
               topic |-> latest_state.topic,
               category |-> latest_state.category,
               pinecone_id |-> latest_state.pinecone_id,
               neo4j_id |-> latest_state.neo4j_id ]
        ELSE [ kind |-> "status", thread_id |-> thread_id, completed |-> FALSE,
               error |-> "Thread not found", error_step |-> Absent,
               video_id |-> Absent, summary |-> Absent, topic |-> Absent,
               category |-> Absent, pinecone_id |-> Absent, neo4j_id |-> Absent ]

\* workflow.py:184-199  list_workflow_threads; o is the outcome of
\* memory.list_keys(), os[t] that of memory.get(t) inside get_workflow_status.
list_workflow_threads(store, o, os) ==
    IF ~o.ok THEN << >>
    ELSE [i \in 1..Len(KeyList(store)) |->
             get_workflow_status(store, KeyList(store)[i], os[KeyList(store)[i]])]

\* workflow.py:95-108 (134-147): the value the entry point returns; final is
\* the state ainvoke ended with, base is initial_state as the except branch
\* finds it, o the outcome of ainvoke.
entry_point_result(final, base, o) ==
    IF o.ok THEN final ELSE SetError(base, o.msg, "workflow")

\* ------------------------------------------------------------------- state

VARIABLES
    edgeMode,   \* the library's resolution of doubly registered edges
    started,    \* number of entry-point invocations so far
    pc,         \* per slot: "idle", the node to run next, or END
    st,         \* per slot: the WorkflowState threaded through the nodes
    initial,    \* per slot: initial_state of the entry point
    tid,        \* per slot: config["configurable"]["thread_id"]
    trace,      \* per slot: the nodes invoked so far, with their outcome
    vecStore,   \* the Pinecone index: vector id -> metadata (NoVec: absent)
    graph,      \* the Neo4j graph (see EmptyGraph)
    ckpt,       \* the checkpointer: thread id -> snapshot (NoState: absent)
    lastSaved,  \* history: per thread, the state of the last Save (NoState after Clear)
    resp,       \* what the last call returned (NoResp while a run is in flight)
    hung,       \* the slots whose external call at pc never returns
    hist        \* history: what the last upsert and the last Save replaced

vars == <<edgeMode, started, pc, st, initial, tid, trace, vecStore, graph, ckpt,
          lastSaved, resp, hung, hist>>

\* Since the last time a run was started with no other in flight:
\* upsert_over: the last successful upsert replaced a record; save_over: the
\* last Save replaced a different snapshot; concurrent: a run was started
\* while another was in flight; cleared: the last clear removed a snapshot.
NoHist == [upsert_over |-> FALSE, save_over |-> FALSE, concurrent |-> FALSE,
           cleared |-> FALSE]

NoResp == [kind |-> "none"]

\* The stores are empty and no run is in flight.
PipelineInit ==
    /\ edgeMode \in EdgeModes
    /\ started = 0
    /\ pc = [r \in Slots |-> "idle"]
    /\ st = [r \in Slots |-> NoState]
    /\ initial = [r \in Slots |-> NoState]
    /\ tid = [r \in Slots |-> None]
    /\ trace = [r \in Slots |-> << >>]
    /\ vecStore = [k \in VecIds |-> NoVec]
    /\ graph = EmptyGraph
    /\ ckpt = [t \in Threads |-> NoState]
    /\ lastSaved = [t \in Threads |-> NoState]
    /\ hung = {}
    /\ hist = NoHist

Init == PipelineInit /\ resp = NoResp

\* workflow.py:75-98 and 110-137: the entry point builds initial_state and
\* calls workflow_graph.ainvoke(initial_state, config).
Start(r, ep, video_id, user_id, transcript, tone, thread_arg) ==
    /\ pc[r] = "idle"
    /\ started < MaxRuns
    /\ ep = "run_workflow" => thread_arg = None
    /\ started' = started + 1
    /\ pc' = [pc EXCEPT ![r] = "summarize"]
    /\ st' = [st EXCEPT ![r] = WorkflowState("url", video_id, transcript, user_id, tone)]
    /\ initial' = [initial EXCEPT ![r] = WorkflowState("url", video_id, transcript, user_id, tone)]
    /\ tid' = [tid EXCEPT ![r] =
                 IF thread_arg = None THEN DefaultThread(video_id) ELSE thread_arg]
    /\ trace' = [trace EXCEPT ![r] = << >>]
    /\ resp' = NoResp
    /\ hist' = IF \E q \in Slots \ {r} : pc[q] # "idle"
               THEN [hist EXCEPT !.concurrent = TRUE]
               ELSE NoHist
    /\ UNCHANGED <<edgeMode, vecStore, graph, ckpt, lastSaved, hung>>

\* The executor runs node n of slot r to completion and schedules its successor.
Advance(r, n, s, o) ==
    /\ pc' = [pc EXCEPT ![r] = NextNode(edgeMode, n, s)]
    /\ st' = [st EXCEPT ![r] = s]
    /\ trace' = [trace EXCEPT ![r] = Append(@, [node |-> n, ok |-> o.ok])]
    /\ UNCHANGED <<edgeMode, started, initial, tid, ckpt, lastSaved, resp, hung>>

Summarize(r) ==
    /\ pc[r] = "summarize"
    /\ \E o \in Outcomes("summarize") :
          Advance(r, "summarize", summarize_node(st[r], o), o)
    /\ UNCHANGED <<vecStore, graph, hist>>

Classify(r) ==
    /\ pc[r] = "classify"
    /\ \E o \in Outcomes("classify") :
          \E tags \in ClassifyTags(st[r], o) :
             Advance(r, "classify", classify_node(st[r], o, tags), o)
    /\ UNCHANGED <<vecStore, graph, hist>>

PineconeStore(r) ==
    /\ pc[r] = "pinecone_store"
    /\ \E call \in Outcomes("pinecone_store") :
          LET o == pinecone_calls(st[r], call)
          IN  /\ Advance(r, "pinecone_store", pinecone_store_node(st[r], o), o)
              /\ vecStore' = PineconeUpsert(vecStore, st[r], o)
              /\ hist' = IF o.ok
                         THEN [hist EXCEPT !.upsert_over = vecStore[VectorKey(st[r])] # NoVec]
                         ELSE hist
    /\ UNCHANGED graph

Neo4jStore(r) ==
    /\ pc[r] = "neo4j_store"
    /\ \E o \in Outcomes("neo4j_store") :
          /\ Advance(r, "neo4j_store", neo4j_store_node(st[r], o), o)
          /\ graph' = Neo4jMerge(graph, st[r], o)
          /\ vecStore' = Neo4jStoreVectors(vecStore, st[r], o)
    /\ UNCHANGED hist

Finalize(r) ==
    /\ pc[r] = "finalize"
    /\ Advance(r, "finalize", finalize_node(st[r]), Ok(None))
    /\ UNCHANGED <<vecStore, graph, hist>>

\* workflow.py:98-108 (137-147): ainvoke reaches END, the checkpointer saves
\* the final state under the thread id and the entry point returns it; if
\* ainvoke raises, the except branch returns initial_state with the error.
\* Whether the nodes' writes are visible in initial_state (the graph ran on
\* the caller's object or on a copy) is the library's choice.
RunReturn(r) ==
    /\ pc[r] = END
    /\ \E o \in Outcomes("workflow") :
          \E base \in {initial[r], st[r]} :
             LET result == entry_point_result(st[r], base, o)
             IN  /\ ckpt' = IF o.ok THEN Save(ckpt, tid[r], st[r]) ELSE ckpt
                 /\ lastSaved' = IF o.ok THEN [lastSaved EXCEPT ![tid[r]] = st[r]]
                                 ELSE lastSaved
                 /\ resp' = [kind |-> "run", thread_id |-> tid[r], state |-> result,
                             trace |-> trace[r], saved |-> o.ok]
                 /\ hist' = [hist EXCEPT
                                !.save_over = o.ok /\ ckpt[tid[r]] \notin {NoState, st[r]}]
    /\ pc' = [pc EXCEPT ![r] = "idle"]
    /\ st' = [st EXCEPT ![r] = NoState]
    /\ initial' = [initial EXCEPT ![r] = NoState]
    /\ tid' = [tid EXCEPT ![r] = None]
    /\ trace' = [trace EXCEPT ![r] = << >>]
    /\ UNCHANGED <<edgeMode, started, vecStore, graph, hung>>

\* workflow.py:149-182  GET status of a thread.
GetWorkflowStatus(t) ==
    /\ \E o \in Outcomes("checkpointer") :
          resp' = get_workflow_status(ckpt, t, o)
    /\ UNCHANGED <<edgeMode, started, pc, st, initial, tid, trace, vecStore, graph,
                   ckpt, lastSaved, hung, hist>>

\* workflow.py:201-210  clear_workflow_thread
ClearWorkflowThread(t) ==
    /\ \E o \in Outcomes("checkpointer") :
          /\ ckpt' = IF o.ok THEN Clear(ckpt, t) ELSE ckpt
          /\ lastSaved' = IF o.ok THEN [lastSaved EXCEPT ![t] = NoState] ELSE lastSaved
          /\ resp' = [kind |-> "clear", thread_id |-> t, success |-> o.ok]
          /\ hist' = [hist EXCEPT !.cleared = o.ok /\ ckpt[t] # NoState]
    /\ UNCHANGED <<edgeMode, started, pc, st, initial, tid, trace, vecStore, graph, hung>>

\* workflow.py:184-199  GET the statuses of all threads.
ListWorkflowThreads ==
    /\ \E o \in Outcomes("checkpointer") :
          \E os \in [ListKeys(ckpt) -> Outcomes("checkpointer")] :
             resp' = [kind |-> "list", listed |-> o.ok,
                      statuses |-> list_workflow_threads(ckpt, o, os)]
    /\ UNCHANGED <<edgeMode, started, pc, st, initial, tid, trace, vecStore, graph,
                   ckpt, lastSaved, hung, hist>>

\* The slot that runs the invocations of a caller who awaits each call
\* before making the next.
FirstSlot == "r1"

\* No run is in flight.
Quiescent == \A q \in Slots : pc[q] = "idle"

\* Calls arrive one after another: the caller makes a call (an entry point,
\* a status query, a clear) when the previous one has returned.
Next ==
    \/ \E ep \in EntryPoints, v \in Videos, u \in Users,
          x \in Transcripts, tone \in Tones, ta \in ThreadArgs :
          Quiescent /\ Start(FirstSlot, ep, v, u, x, tone, ta)
    \/ \E r \in Slots : Summarize(r)
    \/ \E r \in Slots : Classify(r)
    \/ \E r \in Slots : PineconeStore(r)
    \/ \E r \in Slots : Neo4jStore(r)
    \/ \E r \in Slots : Finalize(r)
    \/ \E r \in Slots : RunReturn(r)
    \/ \E t \in Threads : Quiescent /\ GetWorkflowStatus(t)
    \/ \E t \in Threads : Quiescent /\ ClearWorkflowThread(t)
    \/ Quiescent /\ ListWorkflowThreads

Spec == Init /\ [][Next]_vars

\* ------------------------------------------------- parsing a response text

Parsers == {"summary", "classification"}

\* nodes.py:153-161  what summarize_node makes of response.content: parse,
\* then result.get(...) for each field; a parse result that is no dict has
\* no get.
SummarizeOutcome(text) ==
    LET result == SummaryParse(text)
    IN  IF result.kind = "json" /\ result.value # <<"{", "}">>
        THEN Raise("summarize", "'int' object has no attribute 'get'")
        ELSE Ok([ summary |-> result.raw, title |-> "Video Summary",
                  tone |-> "professional", key_points |-> << >>, tags |-> << >> ])

\* nodes.py:218-226  what classify_node makes of response.content
\* (confidence in hundredths).
ClassifyOutcome(text) ==
    LET result == ClassificationParse(text)
    IN  IF result.kind = "json" /\ result.value # <<"{", "}">>
        THEN Raise("classify", "'int' object has no attribute 'get'")
        ELSE Ok([ topic |-> "General", category |-> "Education", confidence |-> 50,
                  subcategories |-> << >>, tags |-> << >> ])

\* The state the nodes are applied to.
ParseState == WorkflowState("url", "v1", <<"w1", "w2">>, "u1", "professional")

\* The response texts are the inputs.
InitParse ==
    /\ PipelineInit
    /\ \E p \in Parsers, t \in Texts : resp = [kind |-> "text", parser |-> p, text |-> t]

\* parser.parse(response.content)
Parse ==
    /\ resp.kind = "text"
    /\ resp' = [kind |-> "parsed", parser |-> resp.parser, text |-> resp.text,
                result |-> IF resp.parser = "summary" THEN SummaryParse(resp.text)
                           ELSE ClassificationParse(resp.text)]
    /\ UNCHANGED <<edgeMode, started, pc, st, initial, tid, trace, vecStore, graph,
                   ckpt, lastSaved, hung, hist>>

\* The node of the parser, run on a state whose LLM call returned the text.
RunNode ==
    /\ resp.kind = "text"
    /\ \E state \in
            IF resp.parser = "summary"
            THEN {summarize_node(ParseState, SummarizeOutcome(resp.text))}
            ELSE {classify_node(ParseState, ClassifyOutcome(resp.text), tags) :
                     tags \in ClassifyTags(ParseState, ClassifyOutcome(resp.text))} :
          resp' = [kind |-> "node", parser |-> resp.parser, text |-> resp.text,
                   state |-> state]
    /\ UNCHANGED <<edgeMode, started, pc, st, initial, tid, trace, vecStore, graph,
                   ckpt, lastSaved, hung, hist>>

NextParse == Parse \/ RunNode

SpecParse == InitParse /\ [][NextParse]_vars

\* ------------------------------------------------------- concurrent runs

\* The nodes that wait for an external call.
CallingNodes == {"summarize", "classify", "pinecone_store", "neo4j_store"}

\* The nodes whose external call is made synchronously inside the coroutine:
\* openai.Embedding.create (smart_summary.py:54) and index.upsert
\* (pinecone_service.py:58) in pinecone_store, session.run
\* (neo4j_service.py:48) in neo4j_store.  The LLM call of summarize and
\* classify is awaited (nodes.py:144, 211).
BlockingNodes == {"pinecone_store", "neo4j_store"}

\* The event loop's only thread is inside a synchronous call that does not
\* return.
LoopBlocked == \E r \in hung : pc[r] \in BlockingNodes

\* The task of slot r can be resumed by the event loop.
Runnable(r) == r \notin hung /\ ~LoopBlocked

\* The external call of the node slot r is about to run never returns.
Hang(r) ==
    /\ pc[r] \in CallingNodes
    /\ r \notin hung
    /\ hung' = hung \cup {r}
    /\ UNCHANGED <<edgeMode, started, pc, st, initial, tid, trace, vecStore, graph,
                   ckpt, lastSaved, resp, hist>>

\* One step of the task of slot r.
Step(r) ==
    \/ Summarize(r)
    \/ Classify(r)
    \/ PineconeStore(r)
    \/ Neo4jStore(r)
    \/ Finalize(r)
    \/ RunReturn(r)

\* Requests arrive while earlier runs are in flight (the POST handler awaits
\* run_workflow on the server's event loop, langgraph_summary.py:102); every
\* handler runs on that loop.
NextConc ==
    \/ \E r \in Slots, ep \in EntryPoints, v \in Videos, u \in Users,
          x \in Transcripts, tone \in Tones, ta \in ThreadArgs :
          /\ ~LoopBlocked
          /\ started < Cardinality(Slots)
          /\ Start(r, ep, v, u, x, tone, ta)
    \/ \E r \in Slots : Runnable(r) /\ Summarize(r)
    \/ \E r \in Slots : Runnable(r) /\ Classify(r)
    \/ \E r \in Slots : Runnable(r) /\ PineconeStore(r)
    \/ \E r \in Slots : Runnable(r) /\ Neo4jStore(r)
    \/ \E r \in Slots : Runnable(r) /\ Finalize(r)
    \/ \E r \in Slots : Runnable(r) /\ RunReturn(r)
    \/ \E r \in Slots : Runnable(r) /\ Hang(r)
    \/ \E t \in Threads : ~LoopBlocked /\ GetWorkflowStatus(t)

SpecConc == Init /\ [][NextConc]_vars

\* The event loop resumes every task that is ready (asyncio's ready queue is
\* first-in first-out), and an external call that does not hang returns.
SpecConcFair == SpecConc /\ \A r \in Slots : WF_vars(Runnable(r) /\ Step(r))

\* ------------------------------------------------- one run_workflow call

\* workflow.py:75-108  one invocation of run_workflow, whose external calls
\* return or hang.
NextRun ==
    \/ \E v \in Videos, u \in Users, x \in Transcripts, tone \in Tones :
          started = 0 /\ Start(FirstSlot, "run_workflow", v, u, x, tone, None)
    \/ Runnable(FirstSlot) /\ Summarize(FirstSlot)
    \/ Runnable(FirstSlot) /\ Classify(FirstSlot)
    \/ Runnable(FirstSlot) /\ PineconeStore(FirstSlot)
    \/ Runnable(FirstSlot) /\ Neo4jStore(FirstSlot)
    \/ Runnable(FirstSlot) /\ Finalize(FirstSlot)
    \/ Runnable(FirstSlot) /\ RunReturn(FirstSlot)
    \/ Runnable(FirstSlot) /\ Hang(FirstSlot)

\* The executor goes on with the run whenever the call it waits for has
\* returned.
SpecRun ==
    Init /\ [][NextRun]_vars /\ WF_vars(Runnable(FirstSlot) /\ Step(FirstSlot))

\* ------------------------------------------------------------ observations

\* The runs a state shows: the one in flight in each busy slot and the one
\* whose result the last call returned.
Shown ==
    {[trace |-> trace[r], state |-> st[r]] : r \in {q \in Slots : pc[q] # "idle"}}
    \cup (IF resp.kind = "run" THEN {[trace |-> resp.trace, state |-> resp.state]} ELSE {})

\* Position of a node in the pipeline.
Index(n) == CHOOSE i \in 1..Len(Nodes) : Nodes[i] = n

Invoked(tr, n) == \E i \in 1..Len(tr) : tr[i].node = n

StepOk(tr, n) == \E i \in 1..Len(tr) : tr[i].node = n /\ tr[i].ok

StepFailed(tr, n) == \E i \in 1..Len(tr) : tr[i].node = n /\ ~tr[i].ok

\* The output fields of node n hold their pre-invocation defaults in s.
OutputsDefault(n, s) ==
    CASE n = "summarize" -> /\ s.summary = None /\ s.title = None
                            /\ s.key_points = << >> /\ s.token_count = NoneNum
      [] n = "classify" -> /\ s.topic = None /\ s.category = None
                           /\ s.confidence = NoneNum /\ s.subcategories = << >>
      [] n = "pinecone_store" -> s.pinecone_id = None
      [] n = "neo4j_store" -> s.neo4j_id = None
      [] n = "finalize" -> s.created_at = None

\* The error channel and every derived or storage field agree in a and b.
Frozen(a, b) ==
    /\ a.error = b.error /\ a.error_step = b.error_step
    /\ a.summary = b.summary /\ a.title = b.title /\ a.tone = b.tone
    /\ a.key_points = b.key_points /\ a.tags = b.tags
    /\ a.topic = b.topic /\ a.category = b.category
    /\ a.confidence = b.confidence /\ a.subcategories = b.subcategories
    /\ a.pinecone_id = b.pinecone_id /\ a.neo4j_id = b.neo4j_id

\* The fields get_workflow_status reports, taken from a snapshot.
StatusFields(s) ==
    <<s.error, s.error_step, s.video_id, s.summary, s.topic, s.category,
      s.pinecone_id, s.neo4j_id>>

\* The same fields of a status response.
Reported(q) ==
    <<q.error, q.error_step, q.video_id, q.summary, q.topic, q.category,
      q.pinecone_id, q.neo4j_id>>

\* ------------------------------------------------------------------ claims

\* C1: the steps are invoked in pipeline order and the run halts at the first
\* step that fails: no step after a failing one is invoked, and the output
\* fields of every later step hold their defaults.
C1_HaltsAtFirstFailure ==
    \A run \in Shown :
        /\ \A i \in 1..Len(run.trace) : run.trace[i].node = Nodes[i]
        /\ \A i \in 1..Len(run.trace) : \A j \in 1..Len(Nodes) :
              (~run.trace[i].ok /\ i < j) =>
                  /\ j > Len(run.trace)
                  /\ OutputsDefault(Nodes[j], run.state)

\* C2: once the error channel of a run is non-empty, error, error_step and
\* every derived or storage field keep their values for the rest of the run,
\* up to and including the state the entry point returns.
C2_ReadOnlyAfterError ==
    [][\A r \in Slots :
          (pc[r] # "idle" /\ Truthy(st[r].error)) =>
              IF pc'[r] # "idle" THEN Frozen(st[r], st'[r])
              ELSE resp'.kind = "run" => Frozen(st[r], resp'.state)]_vars

\* C3: a returned run whose vector-store step succeeded and whose graph-store
\* step failed has the vector id set, the graph id unset, a non-empty error
\* and error_step naming the graph-store step (the neo4j_store node).
C3_GraphStoreFailure ==
    (resp.kind = "run" /\ StepOk(resp.trace, "pinecone_store")
                       /\ StepFailed(resp.trace, "neo4j_store")) =>
        /\ resp.state.pinecone_id # None
        /\ resp.state.neo4j_id = None
        /\ Truthy(resp.state.error)
        /\ resp.state.error_step = "neo4j_store"

\* C4: the graph merge of a run is issued only after the vector upsert of the
\* same run completed successfully.
C4_MergeOnlyAfterUpsert ==
    \A run \in Shown :
        \A j \in 1..Len(run.trace) :
            run.trace[j].node = "neo4j_store" =>
                \E i \in 1..(j - 1) :
                    run.trace[i].node = "pinecone_store" /\ run.trace[i].ok

\* C5: the vector record a run upserted stays in the vector store, under the
\* key of the run's (source id, user id), through every later step of the run
\* and its return, whether or not the graph-store step fails; while the run
\* is in flight the record is the one the run wrote.
C5_VectorRecordPersists ==
    /\ \A run \in Shown :
          StepOk(run.trace, "pinecone_store") =>
              LET k == GenerateId(run.state.video_id, run.state.user_id)
              IN  /\ vecStore[k] # NoVec
                  /\ vecStore[k].video_id = run.state.video_id
                  /\ vecStore[k].user_id = run.state.user_id
    /\ \A r \in Slots :
          (pc[r] # "idle" /\ StepOk(trace[r], "pinecone_store")) =>
              vecStore[GenerateId(st[r].video_id, st[r].user_id)]
                  = CreateMetadata(st[r], st[r].user_id, st[r].video_id)

\* C5 witness: a returned run whose upsert succeeded and whose merge failed,
\* its vector record present and no Video node for its source id.
C5_Witness ==
    /\ resp.kind = "run"
    /\ StepOk(resp.trace, "pinecone_store")
    /\ StepFailed(resp.trace, "neo4j_store")
    /\ vecStore[GenerateId(resp.state.video_id, resp.state.user_id)] # NoVec
    /\ <<"Video", resp.state.video_id>> \notin graph.nodes

\* C6: in the state a run returns, error and error_step are both empty or
\* both set, and when set error_step names one of the five nodes, one that
\* failed in this run.
C6_ErrorChannelWellFormed ==
    \A run \in Shown :
        LET s == run.state
        IN  /\ Truthy(s.error) <=> Truthy(s.error_step)
            /\ Truthy(s.error_step) =>
                  /\ s.error_step \in Range(Nodes)
                  /\ StepFailed(run.trace, s.error_step)

\* C7: whenever a step of the run failed, or ainvoke raised, the entry point
\* returns a state whose error and error_step are both populated.
C7_FailureIsReported ==
    (resp.kind = "run" /\ (~resp.saved \/ \E i \in 1..Len(resp.trace) : ~resp.trace[i].ok)) =>
        /\ Truthy(resp.state.error)
        /\ Truthy(resp.state.error_step)

\* C8: no retries: within one invocation the nodes are invoked in strictly
\* increasing pipeline order, so each node (and its external call) runs at
\* most once and at most five nodes run, also after a failure.
C8_NoRetries ==
    \A run \in Shown :
        /\ Len(run.trace) <= Len(Nodes)
        /\ \A i, j \in 1..Len(run.trace) :
              i < j => Index(run.trace[i].node) < Index(run.trace[j].node)

\* C8 witness: a returned run in which a step failed and a later step ran.
C8_Witness ==
    /\ resp.kind = "run"
    /\ \E i \in 1..Len(resp.trace) : ~resp.trace[i].ok /\ i < Len(resp.trace)

\* C9 as stated: a status response for a thread that has a checkpoint says
\* completed and carries the fields of that snapshot.
C9_CompletedIffCheckpoint ==
    (resp.kind = "status" /\ Get(ckpt, resp.thread_id) # NoState) =>
        /\ resp.completed
        /\ Reported(resp) = StatusFields(Get(ckpt, resp.thread_id))

\* C9 amended: completed=false is returned only when the thread has no
\* checkpoint or reading the checkpointer raised; "Thread not found" only
\* when it has none; completed=true carries the fields of the snapshot.
C9_CompletedUnlessReadFails ==
    resp.kind = "status" =>
        LET snap == Get(ckpt, resp.thread_id)
        IN  /\ ~resp.completed =>
                  \/ snap = NoState /\ resp.error = "Thread not found"
                  \/ resp.error \in ErrMsgs("checkpointer")
            /\ resp.completed => snap # NoState /\ Reported(resp) = StatusFields(snap)
            /\ resp.error = "Thread not found" => snap = NoState

\* C9 witness: a completed status whose snapshot is that of a failed run.
C9_Witness ==
    /\ resp.kind = "status"
    /\ resp.completed
    /\ Truthy(resp.error)
    /\ resp.error_step \in Range(Nodes)

C11_LatestRunSnapshot ==
    resp.kind = "run" =>
        /\ Occurrences(KeyList(ckpt), resp.thread_id) = 1
        /\ Get(ckpt, resp.thread_id) = resp.state

\* C11 amended: after a run whose checkpoint was saved, the store holds
\* exactly one snapshot for its thread id, the state that run returned; a run
\* whose ainvoke raised leaves every snapshot as it was; and a snapshot
\* disappears only in a successful clear_workflow_thread of its thread id.
C11_LatestSavedSnapshot ==
    /\ [](resp.kind = "run" /\ resp.saved =>
             /\ Occurrences(KeyList(ckpt), resp.thread_id) = 1
             /\ Get(ckpt, resp.thread_id) = resp.state)
    /\ [][/\ \A r \in Slots :
               (pc[r] = END /\ pc'[r] = "idle" /\ ~resp'.saved) => ckpt' = ckpt
           /\ \A t \in Threads :
               (ckpt[t] # NoState /\ ckpt'[t] = NoState) =>
                   resp' = [kind |-> "clear", thread_id |-> t, success |-> TRUE]]_vars

\* C11 witness: a run returned whose Save replaced a different snapshot of an
\* earlier run under the same thread id.
C11_Witness ==
    /\ resp.kind = "run"
    /\ resp.saved
    /\ hist.save_over
    /\ Get(ckpt, resp.thread_id) = resp.state

\* Slot b never has a hanging external call and never shares its thread id
\* with the run in another slot.
OwnCallsReturn(b) ==
    /\ b \notin hung
    /\ \A a \in Slots \ {b} : (pc[a] # "idle" /\ pc[b] # "idle") => tid[a] # tid[b]

\* C12: runs in flight at the same time under different thread ids do not
\* interfere: the Save of a returning run changes the snapshot of its own
\* thread id only, and once all runs have returned every thread id holds the
\* state last saved under it.
C12_DistinctThreadsIsolated ==
    /\ [](Quiescent => \A t \in Threads : Get(ckpt, t) = lastSaved[t])
    /\ [][\A r \in Slots :
              (pc[r] = END /\ pc'[r] = "idle") =>
                  \A t \in Threads \ {tid[r]} : ckpt'[t] = ckpt[t]]_vars

\* C12 witness: two runs that overlapped have both returned and their thread
\* ids hold the snapshots of different videos.
C12_Witness ==
    /\ Quiescent
    /\ hist.concurrent
    /\ \E t1, t2 \in Threads :
          /\ t1 # t2
          /\ Get(ckpt, t1) # NoState /\ Get(ckpt, t2) # NoState
          /\ Get(ckpt, t1).video_id # Get(ckpt, t2).video_id

\* The thread ids of the statuses list_workflow_threads returned.
ListedThreads(statuses) == [i \in 1..Len(statuses) |-> statuses[i].thread_id]

\* What a status query and a listing would answer in this state if the
\* checkpointer raises nowhere.
StatusNow(t) == get_workflow_status(ckpt, t, Ok(None))

ListingNow == list_workflow_threads(ckpt, Ok(None), [t \in Threads |-> Ok(None)])

\* C14 as stated: after any clear_workflow_thread(t) the thread is unknown to
\* a status query and to a listing, and any listing holds exactly one status
\* per thread id that has a checkpoint.
C14_ClearAndList ==
    /\ resp.kind = "clear" =>
          /\ ~StatusNow(resp.thread_id).completed
          /\ Occurrences(ListedThreads(ListingNow), resp.thread_id) = 0
    /\ resp.kind = "list" =>
          \A t \in Threads :
              Occurrences(ListedThreads(resp.statuses), t)
                  = (IF Get(ckpt, t) # NoState THEN 1 ELSE 0)

\* C14 amended: a clear_workflow_thread(t) that returns True leaves t unknown
\* to status queries and listings, one that returns False leaves the store
\* as it was, and either leaves every other checkpoint as it was; a listing
\* holds exactly one status per thread id that has a checkpoint unless
\* enumerating the checkpointer raised, and then it is empty.
C14_ClearAndListUnlessRaise ==
    /\ [](resp.kind = "clear" /\ resp.success =>
             /\ ~StatusNow(resp.thread_id).completed
             /\ StatusNow(resp.thread_id).error = "Thread not found"
             /\ Occurrences(ListedThreads(ListingNow), resp.thread_id) = 0)
    /\ [](resp.kind = "list" =>
             IF resp.listed
             THEN \A t \in Threads :
                     Occurrences(ListedThreads(resp.statuses), t)
                         = (IF Get(ckpt, t) # NoState THEN 1 ELSE 0)
             ELSE resp.statuses = << >>)
    /\ [][resp'.kind = "clear" =>
              /\ \A u \in Threads \ {resp'.thread_id} : ckpt'[u] = ckpt[u]
              /\ ~resp'.success => ckpt' = ckpt]_vars

\* C14 witness: a clear removed the snapshot of one thread id while another
\* thread id keeps its snapshot, which a listing would report alone.
C14_Witness ==
    /\ resp.kind = "clear"
    /\ resp.success
    /\ hist.cleared
    /\ \E u \in Threads \ {resp.thread_id} :
          /\ Get(ckpt, u) # NoState
          /\ ListedThreads(ListingNow) = <<u>>

\* All five nodes ran and none failed.
AllStepsOk(tr) == Len(tr) = Len(Nodes) /\ \A i \in 1..Len(tr) : tr[i].ok

\* C15: a run whose five steps all succeeded returns the successful final
\* state, error empty and every step output present, also when saving its
\* checkpoint failed.
C15_SaveFailureKeepsResult ==
    (resp.kind = "run" /\ AllStepsOk(resp.trace) /\ ~resp.saved) =>
        /\ ~Truthy(resp.state.error)
        /\ ~Truthy(resp.state.error_step)
        /\ \A n \in Range(Nodes) : ~OutputsDefault(n, resp.state)

\* C16: however often the graph-store step ran with the same inputs, the
\* graph holds what one run of it creates: one KeyPoint node per key point
\* of a video (the nodes and relationships kept in graph.nodes and
\* graph.rels are unique by construction of MERGE).
C16_NoDuplicateNodes ==
    \A k \in KpKeys : graph.key_points[k] <= 1

\* The ids of the records the index holds for (video_id, user_id).
RecordsOf(video_id, user_id) ==
    {k \in VecIds : /\ vecStore[k] # NoVec
                    /\ vecStore[k].video_id = video_id
                    /\ vecStore[k].user_id = user_id}

OwnIds(video_id, pinecone_id, neo4j_id) ==
    /\ pinecone_id # None => \E u \in Users : pinecone_id = GenerateId(video_id, u)
    /\ neo4j_id # None => neo4j_id = video_id

\* C13: with runs in flight at the same time under one thread id, the
\* snapshot of a thread id is always the whole final state of the run that
\* saved last, and a status query reports the fields of that one state.
C13_SnapshotOfOneWriter ==
    /\ \A t \in Threads :
          Get(ckpt, t) # NoState =>
              /\ Get(ckpt, t) = lastSaved[t]
              /\ OwnIds(Get(ckpt, t).video_id, Get(ckpt, t).pinecone_id, Get(ckpt, t).neo4j_id)
    /\ (resp.kind = "status" /\ resp.completed) =>
          /\ Reported(resp) = StatusFields(Get(ckpt, resp.thread_id))
          /\ OwnIds(resp.video_id, resp.pinecone_id, resp.neo4j_id)

\* C13 witness: two runs overlapped under the same thread id, the second
\* Save replaced the different snapshot of the first, and a status query
\* then read the thread.
C13_Witness ==
    /\ resp.kind = "status"
    /\ resp.completed
    /\ hist.concurrent
    /\ hist.save_over

\* C18: SummaryOutputParser.parse follows the precedence: the contents of a
\* fenced block (opening marker and closing fence) parsed; else the span from
\* the first opening to the last closing brace parsed; else the fallback
\* with the raw text; a failed parse gives the fallback.  For a marker that is
\* never closed both readings are accepted: the text after the marker as the
\* block, or no block at all.
C18_ParsePrecedence ==
    (resp.kind = "parsed" /\ resp.parser = "summary") =>
        LET text == resp.text
            open == Find(text, <<"FENCE", "json">>, 1)
            close == IF open = 0 THEN 0 ELSE Find(text, <<"FENCE">>, open + 2)
            OfStr(str) == IF JsonLoads(str).ok THEN Parsed(JsonLoads(str).value)
                          ELSE SummaryFallback(text)
            block == OfStr(SubSeq(text, open + 2, close - 1))
            rest == OfStr(SubSeq(text, open + 2, Len(text)))
            span == IF Contains(text, <<"{">>) /\ Contains(text, <<"}">>)
                    THEN OfStr(SubSeq(text, Find(text, <<"{">>, 1), RFind(text, <<"}">>)))
                    ELSE SummaryFallback(text)
        IN  IF close # 0 THEN resp.result = block
            ELSE IF open # 0 THEN resp.result \in {rest, span}
            ELSE resp.result = span

\* C19: whatever text the LLM returned, summarize and classify finish with
\* the error channel empty and their output fields written.
C19_MalformedNeverFails ==
    resp.kind = "node" =>
        /\ resp.state.error = None
        /\ resp.state.error_step = None
        /\ IF resp.parser = "summary" THEN ~OutputsDefault("summarize", resp.state)
           ELSE ~OutputsDefault("classify", resp.state)

\* C20: under fair scheduling, a run none of whose own external calls hangs
\* reaches its return, whatever happens to the external calls of the runs
\* in flight under other thread ids.
C20_OthersProgress ==
    \A b \in Slots : []OwnCallsReturn(b) => ((pc[b] # "idle") ~> (pc[b] = "idle"))

\* C21: the state a fully successful run ends with has error empty and
\* summary, title, topic, category and both storage ids set, with the
\* timestamp written last; finalize never sets the error channel and runs
\* only when no earlier step failed.
C21_FinalizeOnlyOnSuccess ==
    /\ \A r \in Slots :
          (pc[r] # "idle" /\ AllStepsOk(trace[r])) =>
              /\ st[r].error = None /\ st[r].error_step = None
              /\ st[r].created_at # None
              /\ \A f \in {st[r].summary, st[r].title, st[r].topic, st[r].category,
                            st[r].pinecone_id, st[r].neo4j_id} : f # None
    /\ \A r \in Slots :
          (pc[r] # "idle" /\ st[r].created_at # None) => Invoked(trace[r], "finalize")
    /\ \A run \in Shown :
          Invoked(run.trace, "finalize") =>
              /\ run.trace[Len(run.trace)] = [node |-> "finalize", ok |-> TRUE]
              /\ \A i \in 1..Len(run.trace) : run.trace[i].ok

\* ------------------------------------------------------- nodes, one call

\* The tag lists a response can carry.
SummaryTagLists == {<< >>, <<"t1">>, <<"t1", "t2">>, <<"t1", "t1">>, NullTags}

ResultTagLists == {<< >>, <<"t1">>, <<"t2", "t3">>, <<"t3", "t3">>, NullTags}

KeyPointLists == {<<"k1">>, <<"k2", "k1">>, <<"k1", "k1">>}

\* What SummaryOutputParser.parse can return, tags and key points varied.
SummaryResultsWide ==
    { [ summary |-> "S", title |-> "T", tone |-> "casual",
        key_points |-> kp, tags |-> tags ] :
      kp \in KeyPointLists, tags \in SummaryTagLists }

\* What ClassificationOutputParser.parse can return, tags varied.
ClassificationResultsWide ==
    { [ topic |-> "ML", category |-> "Tech", confidence |-> 85,
        subcategories |-> <<"sub1">>, tags |-> tags ] : tags \in ResultTagLists }

\* The outcomes of the external call of one node.
NodeOutcomes(n) ==
    CASE n = "summarize" ->
            {Ok(x) : x \in SummaryResultsWide} \cup
            {Raise(n, m) : m \in ErrMsgs(n)}
      [] n = "classify" ->
            {Ok(x) : x \in ClassificationResultsWide} \cup
            {Raise(n, m) : m \in ErrMsgs(n)}
      [] n = "finalize" -> {Ok(None)}
      [] OTHER -> Outcomes(n)

Summarized == {summarize_node(ParseState, Ok(x)) : x \in SummaryResultsWide}

Classified ==
    {classify_node(s, Ok(x), tags) :
        s \in {y \in Summarized : y.tags = <<"t1">>},
        x \in {y \in ClassificationResultsWide : y.tags = <<"t1">>},
        tags \in {<<"t1">>}}

\* The states a node is invoked on: those its predecessors return.
NodeInputs(n) ==
    CASE n = "summarize" -> {ParseState}
      [] n = "classify" -> Summarized
      [] n = "pinecone_store" -> Classified \cup {ParseState}
      [] n = "neo4j_store" ->
            {pinecone_store_node(s, Ok(None)) : s \in Classified}
      [] OTHER ->
            {neo4j_store_node(pinecone_store_node(s, Ok(None)), Ok(None)) :
                s \in Classified}

\* The states the node can return.
NodeReturns(n, s, o) ==
    CASE n = "summarize" -> {summarize_node(s, o)}
      [] n = "classify" -> {classify_node(s, o, tags) : tags \in ClassifyTags(s, o)}
      [] n = "pinecone_store" -> {pinecone_store_node(s, pinecone_calls(s, o))}
      [] n = "neo4j_store" -> {neo4j_store_node(s, o)}
      [] OTHER -> {finalize_node(s)}

InitNode ==
    /\ PipelineInit
    /\ \E n \in Range(Nodes) : \E s \in NodeInputs(n), o \in NodeOutcomes(n) :
          resp = [kind |-> "call", node |-> n, before |-> s, outcome |-> o]

InvokeNode ==
    /\ resp.kind = "call"
    /\ \E after \in NodeReturns(resp.node, resp.before, resp.outcome) :
          resp' = [kind |-> "returned", node |-> resp.node, before |-> resp.before,
                   outcome |-> resp.outcome, after |-> after]
    /\ UNCHANGED <<edgeMode, started, pc, st, initial, tid, trace, vecStore, graph,
                   ckpt, lastSaved, hung, hist>>

NextNodeCall == InvokeNode

SpecNode == InitNode /\ [][NextNodeCall]_vars

\* The fields a step is declared to write.
OutputFields(n) ==
    CASE n = "summarize" ->
            {"summary", "title", "tone", "key_points", "tags", "token_count"}
      [] n = "classify" ->
            {"topic", "category", "confidence", "subcategories", "tags"}
      [] n = "pinecone_store" -> {"pinecone_id"}
      [] n = "neo4j_store" -> {"neo4j_id"}
      [] OTHER -> {"created_at"}

\* The call of the node returned with the error channel set by it.
NodeFailed == resp.kind = "returned" /\ resp.after.error_step = resp.node

NodeSucceeded == resp.kind = "returned" /\ resp.after.error_step = None

\* ------------------------------------------------------------ truncation

\* Longest transcript and largest budget of the truncation runs.
MaxTranscriptLen == 4

MaxBudget == 3

TranscriptChars == {"w1", "w2", WideChar}

TranscriptTexts ==
    UNION {[1..n -> TranscriptChars] : n \in 0..MaxTranscriptLen}

\* The transcript and the budget are the inputs.
InitTruncate ==
    /\ PipelineInit
    /\ \E text \in TranscriptTexts, budget \in 1..MaxBudget :
          resp = [kind |-> "transcript", text |-> text, budget |-> budget]

\* nodes.py:113-114  truncated_transcript and token_count of summarize_node.
Truncate ==
    /\ resp.kind = "transcript"
    /\ LET truncated_transcript == truncate_text(resp.text, resp.budget)
       IN  resp' = [kind |-> "truncated", text |-> resp.text, budget |-> resp.budget,
                    sent |-> truncated_transcript,
                    token_count |-> count_tokens(truncated_transcript)]
    /\ UNCHANGED <<edgeMode, started, pc, st, initial, tid, trace, vecStore, graph,
                   ckpt, lastSaved, hung, hist>>

NextTruncate == Truncate

SpecTruncate == InitTruncate /\ [][NextTruncate]_vars

\* ----------------------------------------------------------- vector keys

\* Ids as callers can pass them: video ids and user ids are free strings,
\* some holding the character that joins them in the key.
KeyVideos == {"a_b", "a", "v1"}

KeyUsers == {"c", "b_c", "u1"}

KeyPairs == KeyVideos \X KeyUsers

KeyIds == {GenerateId(p[1], p[2]) : p \in KeyPairs}

NoPair == <<None, None>>

\* The index is empty and no pair has stored.
InitKeys ==
    /\ PipelineInit
    /\ resp = [kind |-> "index", records |-> [k \in KeyIds |-> NoPair], stored |-> {}]

\* pinecone_service.py:46-66  store_summary(summary_data, user_id, video_id,
\* embedding): upsert under _generate_id(video_id, user_id); the metadata
\* names the pair.
StoreSummary(video_id, user_id) ==
    /\ resp.kind = "index"
    /\ resp' = [resp EXCEPT !.records[GenerateId(video_id, user_id)] = <<video_id, user_id>>,
                            !.stored = @ \cup {<<video_id, user_id>>}]
    /\ UNCHANGED <<edgeMode, started, pc, st, initial, tid, trace, vecStore, graph,
                   ckpt, lastSaved, hung, hist>>

NextKeys == \E p \in KeyPairs : StoreSummary(p[1], p[2])

SpecKeys == InitKeys /\ [][NextKeys]_vars

\* ------------------------------------------------------------ demo quota

\* demo_service.py:21
DEMO_SUMMARY_LIMIT == 3

\* Demo summary requests of one guest.
MaxDemoRequests == 5

DemoRequests == 1..MaxDemoRequests

\* The usage counter lives in Redis.  With one server process (main.py:89)
\* every handler runs on the one event loop, and create_demo_summary has no
\* suspension point between its check and its increment: the Redis client,
\* the transcript and metadata calls and openai.ChatCompletion.create are
\* synchronous (demo_service.py:93, 125; summary.py:65, 85, 127).  Several
\* server processes on the same Redis run their handlers side by side.
Deployments == {"one_loop", "several_processes"}

\* A handler is between its check and its increment.
InHandler(q) == resp.req[q] = "checked"

InitDemo ==
    /\ PipelineInit
    /\ \E d \in Deployments :
          resp = [kind |-> "demo", deployment |-> d, usage |-> 0,
                  req |-> [q \in DemoRequests |-> "idle"]]

\* demo_service.py:87-115  check_demo_quota, and demo.py:140-145: 429 without
\* quota.
CheckDemoQuota(q) ==
    /\ resp.kind = "demo"
    /\ resp.req[q] = "idle"
    /\ resp.deployment = "one_loop" => \A o \in DemoRequests : ~InHandler(o)
    /\ LET current_usage == resp.usage
           remaining == IF DEMO_SUMMARY_LIMIT > current_usage
                        THEN DEMO_SUMMARY_LIMIT - current_usage ELSE 0
           has_quota == remaining > 0
       IN  resp' = [resp EXCEPT !.req[q] = IF has_quota THEN "checked" ELSE "429"]
    /\ UNCHANGED <<edgeMode, started, pc, st, initial, tid, trace, vecStore, graph,
                   ckpt, lastSaved, hung, hist>>

\* demo.py:150-163  the transcript or the summary call raises: the handler
\* answers with the error and does not increment.
DemoSummaryFails(q) ==
    /\ resp.kind = "demo"
    /\ InHandler(q)
    /\ resp' = [resp EXCEPT !.req[q] = "error"]
    /\ UNCHANGED <<edgeMode, started, pc, st, initial, tid, trace, vecStore, graph,
                   ckpt, lastSaved, hung, hist>>

\* demo.py:166, demo_service.py:117-148  increment_demo_usage: INCR.
IncrementDemoUsage(q) ==
    /\ resp.kind = "demo"
    /\ InHandler(q)
    /\ resp' = [resp EXCEPT !.usage = @ + 1, !.req[q] = "200"]
    /\ UNCHANGED <<edgeMode, started, pc, st, initial, tid, trace, vecStore, graph,
                   ckpt, lastSaved, hung, hist>>

NextDemo ==
    \E q \in DemoRequests :
        \/ CheckDemoQuota(q)
        \/ DemoSummaryFails(q)
        \/ IncrementDemoUsage(q)

SpecDemo == InitDemo /\ [][NextDemo]_vars

\* ------------------------------------------------- summary rate limiting

\* @limiter.limit("10/minute") (routers/summary.py:153).
RateLimit == 10

\* Requests one remote address sends inside one minute.
MaxRequests == 11

\* get_remote_address: the key of the limit.
Addrs == {"ip1", "ip2"}

\* The Authorization header of a request: absent, a bearer token that
\* neither verify_token nor Firebase accepts, or an accepted one.
Credentials == {"absent", "invalid", "valid"}

\* What the body of create_summary answers once it runs: the response model,
\* or one of its HTTPExceptions.
HandlerStatuses == {200, 400, 403, 501}

\* The decorator reads the handler's argument named request; the handler
\* binds that name to the SummaryRequest body and the Starlette Request to
\* req.  The limiter is library code: either it takes the argument by its
\* name and refuses a value that is not a Request, or it reaches the Request.
RequestArgModes == {"by_name", "by_type"}

\* One POST /api/v1/summary.  FastAPI resolves Depends(get_current_user),
\* and through it HTTPBearer, before it calls the decorated endpoint; the
\* limit is tested and counted inside the decorator.
create_summary(mode, credentials, hits, outcome) ==
    IF credentials = "absent" THEN [status |-> 403, hits |-> hits]
    ELSE IF credentials = "invalid" THEN [status |-> 401, hits |-> hits]
    ELSE IF mode = "by_name" THEN [status |-> 500, hits |-> hits]
    ELSE IF hits >= RateLimit THEN [status |-> 429, hits |-> hits]
    ELSE [status |-> outcome, hits |-> hits + 1]

InitRate ==
    /\ PipelineInit
    /\ \E mode \in RequestArgModes :
          resp = [kind |-> "rate", mode |-> mode,
                  hits |-> [a \in Addrs |-> 0], sent |-> [a \in Addrs |-> 0],
                  last |-> [addr |-> None, n |-> 0, status |-> 0]]

PostSummary(a, credentials, outcome) ==
    /\ resp.kind = "rate"
    /\ resp.sent[a] < MaxRequests
    /\ LET r == create_summary(resp.mode, credentials, resp.hits[a], outcome)
       IN  resp' = [resp EXCEPT !.hits[a] = r.hits,
                                !.sent[a] = @ + 1,
                                !.last = [addr |-> a, n |-> resp.sent[a] + 1,
                                          status |-> r.status]]
    /\ UNCHANGED <<edgeMode, started, pc, st, initial, tid, trace, vecStore, graph,
                   ckpt, lastSaved, hung, hist>>

\* The minute of the limit's window ends.
NewMinute ==
    /\ resp.kind = "rate"
    /\ \E a \in Addrs : resp.sent[a] > 0
    /\ resp' = [resp EXCEPT !.hits = [a \in Addrs |-> 0],
                            !.sent = [a \in Addrs |-> 0],
                            !.last = [addr |-> None, n |-> 0, status |-> 0]]
    /\ UNCHANGED <<edgeMode, started, pc, st, initial, tid, trace, vecStore, graph,
                   ckpt, lastSaved, hung, hist>>

NextRate ==
    \/ \E a \in Addrs, c \in Credentials, o \in HandlerStatuses : PostSummary(a, c, o)
    \/ NewMinute

SpecRate == InitRate /\ [][NextRate]_vars

\* C22: a remote address that has sent ten requests to POST /api/v1/summary
\* within the minute gets 429 for the eleventh, whatever the first ten were
\* answered.
C22_EleventhRejected ==
    (resp.kind = "rate" /\ resp.last.n > RateLimit) => resp.last.status = 429

\* C23: a step that ends by setting the error channel leaves every one of
\* its output fields at the value it had when the step was invoked.
C23_FailureWritesNothing ==
    (NodeFailed /\ resp.node # "finalize") =>
        \A f \in OutputFields(resp.node) : resp.after[f] = resp.before[f]

\* C24: a step changes no field outside its declared output fields (and the
\* error channel a failing step sets); the inputs and processing_time stay.
C24_WritesOnlyDeclared ==
    resp.kind = "returned" =>
        \A f \in (DOMAIN resp.before) \ (OutputFields(resp.node) \cup {"error", "error_step"}) :
            resp.after[f] = resp.before[f]

\* C26: after a successful classify, tags holds exactly the tags present
\* before and the tags of the classification result, each once, and
\* key_points is as before.
C26_TagsUnion ==
    (NodeSucceeded /\ resp.node = "classify") =>
        /\ Range(resp.after.tags) =
               Range(resp.before.tags) \cup Range(resp.outcome.result.tags)
        /\ Cardinality(Range(resp.after.tags)) = Len(resp.after.tags)
        /\ resp.after.key_points = resp.before.key_points

\* A successful classify joined a list holding a tag twice with a result that
\* repeats a tag, and the key points were two.
C26_Witness ==
    /\ NodeSucceeded /\ resp.node = "classify"
    /\ resp.before.tags = <<"t1", "t1">>
    /\ resp.outcome.result.tags = <<"t3", "t3">>
    /\ resp.before.key_points = <<"k2", "k1">>

\* C25: for every response text the two parsers take the same case, and in
\* the fallback case the object returned holds the raw response verbatim.
C25_SameFallbackRule ==
    resp.kind = "parsed" =>
        /\ SummaryParse(resp.text).kind = ClassificationParse(resp.text).kind
        /\ resp.result.kind = "fallback" => resp.result.raw = Render(resp.text)

\* C27: a transcript within the budget is sent unchanged with its exact
\* token count; of a longer one exactly the first tokens up to the budget are
\* sent; token_count is the token count of the text sent and never exceeds
\* the budget.
C27_TruncationKeepsHead ==
    resp.kind = "truncated" =>
        /\ Len(Encode(resp.text)) <= resp.budget =>
              resp.sent = resp.text /\ resp.token_count = Len(Encode(resp.text))
        /\ Len(Encode(resp.text)) > resp.budget =>
              Encode(resp.sent) = SubSeq(Encode(resp.text), 1, resp.budget)
        /\ resp.token_count = Len(Encode(resp.sent))
        /\ resp.token_count <= resp.budget

\* C28: different (video id, user id) pairs give different strings to the
\* key hash, so the record a pair stored is never replaced by the record of
\* another pair.
C28_KeyInjective ==
    resp.kind = "index" =>
        /\ \A p, q \in resp.stored :
              GenerateId(p[1], p[2]) = GenerateId(q[1], q[2]) => p = q
        /\ \A p \in resp.stored : resp.records[GenerateId(p[1], p[2])] = p

C30_EveryRunTerminates ==
    /\ [](\A run \in Shown :
             /\ Len(run.trace) <= Len(Nodes)
             /\ \A i, j \in 1..Len(run.trace) :
                   run.trace[i].node = run.trace[j].node => i = j)
    /\ [](hung = {}) => ((pc[FirstSlot] # "idle") ~> (resp.kind = "run" /\ pc[FirstSlot] = "idle"))

\* A run_workflow invocation returned after all five steps, no call hung.
C30_Witness ==
    /\ resp.kind = "run"
    /\ Len(resp.trace) = Len(Nodes)
    /\ hung = {}
    /\ \E i \in 1..Len(resp.trace) : ~resp.trace[i].ok

====
